---- MODULE Spec2Model ----
(***************************************************************************)
(* NoteApp (src/NoteApp.py): the Note / Project / ProjectManager data      *)
(* layer and the Tk controller NoteApp, as a state machine.                *)
(*                                                                         *)
(* Text is a sequence of one-character strings, so that slicing, strip()   *)
(* and len() are computed as Python computes them.  A datetime is a number *)
(* of clock ticks; its ISO text is the pair (whole seconds, optional       *)
(* fraction) that datetime.isoformat() prints and fromisoformat() reads.   *)
(* Python's None is the record None, an optional value v is Some(v).       *)
(* The category labels of the source are Cyrillic strings; the module      *)
(* writes them with the English names of the same categories.              *)
(***************************************************************************)
EXTENDS Integers, Sequences, FiniteSets, TLC

VARIABLES
    pc,                 \* "start": before NoteApp.__init__ (l.137); "running"; "crashed":
                        \* __init__ raised; "api", "saved", "raised": the data layer called directly
    file,               \* the file at ProjectManager.FILE_PATH (l.116)
    heap,               \* the Note objects constructed (l.27), by identity 1..Len(heap)
    project,            \* self.project (l.142): None or [notes |-> sequence of Note identities]
    current_note_index, \* self.current_note_index (l.143): None or Some(i), i counted from 0
    listbox,            \* the entries of self.notes_listbox (l.157)
    dialogs,            \* the open Add/Edit forms (l.203), each with the `note` its closure holds
    now,                \* the value datetime.now() returns (l.42, l.57)
    event               \* the handler or call that ran last, its arguments and its outcome

vars == <<pc, file, heap, project, current_note_index, listbox, dialogs, now, event>>

----------------------------------------------------------------------------
(* Bounds of the model *)

MaxHeap == 2        \* Note objects constructed in one run
MaxDialogs == 1     \* forms open at the same time
MaxTicks == 1       \* clock ticks during one run
TicksPerSecond == 2 \* clock ticks in one second (microseconds in the source)

\* the run starts in second 1; the timestamps of the file found at startup
\* were taken in second 0
StartTime == TicksPerSecond

(* Program constant *)
TitleLimit == 50

----------------------------------------------------------------------------
(* Python values *)

None == [some |-> FALSE]
Some(v) == [some |-> TRUE, val |-> v]

Rep(c, n) == [i \in 1..n |-> c]

Whitespace == {" "}

\* s[:n]
Slice(s, n) == SubSeq(s, 1, IF Len(s) < n THEN Len(s) ELSE n)

RECURSIVE lstrip(_)
lstrip(s) == IF s # <<>> /\ Head(s) \in Whitespace THEN lstrip(Tail(s)) ELSE s

RECURSIVE rstrip(_)
rstrip(s) ==
    IF s # <<>> /\ s[Len(s)] \in Whitespace THEN rstrip(SubSeq(s, 1, Len(s) - 1)) ELSE s

\* str.strip()
strip(s) == rstrip(lstrip(s))

\* a Python object's truth value, for the optional text arguments of Note.update
TruthyText(opt) == opt.some /\ opt.val # <<>>

\* an Enum member is always true; only None is false
TruthyMember(opt) == opt.some

----------------------------------------------------------------------------
(* class NoteCategory *)

NoteCategory ==
    [WORK |-> "Work", HOME |-> "Home", HEALTH |-> "Health", PEOPLE |-> "People",
     DOCUMENTS |-> "Documents", FINANCE |-> "Finance", MISC |-> "Misc"]

Members == DOMAIN NoteCategory

Labels == {NoteCategory[m] : m \in Members}

\* NoteCategory(label): the member with that value, or ValueError
CategoryOf(label) ==
    IF label \in Labels
    THEN [ok |-> TRUE, val |-> CHOOSE m \in Members : NoteCategory[m] = label]
    ELSE [ok |-> FALSE, error |-> "ValueError"]

----------------------------------------------------------------------------
(* datetime.isoformat() and datetime.fromisoformat() *)

NoFraction == -1

\* a fraction always printed
IsoformatWithFraction(t) ==
    [sec |-> t \div TicksPerSecond, frac |-> t % TicksPerSecond]

\* isoformat() prints the fraction of the second only when it is not zero
isoformat(t) ==
    [sec |-> t \div TicksPerSecond,
     frac |-> IF t % TicksPerSecond = 0 THEN NoFraction ELSE t % TicksPerSecond]

\* fromisoformat() reads the text with or without a fraction
fromisoformat(s) ==
    s.sec * TicksPerSecond + (IF s.frac = NoFraction THEN 0 ELSE s.frac)

----------------------------------------------------------------------------
(* class Note *)

\* a title stored as given
NoteInitUntruncated(title, category, content, t) ==
    [title |-> title, category |-> category, content |-> content,
     created_at |-> t, updated_at |-> t]

Note_init(title, category, content, t) ==
    [title |-> Slice(title, TitleLimit),
     category |-> category,
     content |-> content,
     created_at |-> t,
     updated_at |-> t]

\* content replaced whenever it is supplied, empty or not
NoteUpdateEmptyContent(note, title, category, content, t) ==
    [title |-> IF TruthyText(title) THEN Slice(title.val, TitleLimit) ELSE note.title,
     category |-> IF TruthyMember(category) THEN category.val ELSE note.category,
     content |-> IF content.some THEN content.val ELSE note.content,
     created_at |-> note.created_at,
     updated_at |-> t]

Note_update(note, title, category, content, t) ==
    [title |-> IF TruthyText(title) THEN Slice(title.val, TitleLimit) ELSE note.title,
     category |-> IF TruthyMember(category) THEN category.val ELSE note.category,
     content |-> IF TruthyText(content) THEN content.val ELSE note.content,
     created_at |-> note.created_at,
     updated_at |-> t]

\* the creation time written under both keys
NoteToDictOneStamp(note) ==
    [title |-> note.title,
     category |-> NoteCategory[note.category],
     content |-> note.content,
     created_at |-> isoformat(note.created_at),
     updated_at |-> isoformat(note.created_at)]

Note_to_dict(note) ==
    [title |-> note.title,
     category |-> NoteCategory[note.category],
     content |-> note.content,
     created_at |-> isoformat(note.created_at),
     updated_at |-> isoformat(note.updated_at)]

\* the arguments of cls(...) are evaluated first: an unknown label raises
\* before any Note exists
Note_from_dict(data, t) ==
    LET cat == CategoryOf(data.category) IN
    IF ~cat.ok
    THEN [ok |-> FALSE, error |-> cat.error]
    ELSE [ok |-> TRUE,
          val |-> [Note_init(data.title, cat.val, data.content, t)
                      EXCEPT !.created_at = fromisoformat(data.created_at),
                             !.updated_at = fromisoformat(data.updated_at)]]

----------------------------------------------------------------------------
(* class Project; a Project value is the sequence of its notes *)

add_note(notes, note) == Append(notes, note)

\* no lower bound on the index: del notes[-1] removes the last note
RemoveNegativeIndex(notes, index) ==
    LET k == IF index < 0 THEN Len(notes) + index ELSE index IN
    IF index < Len(notes) /\ 0 <= k
    THEN [i \in 1..(Len(notes) - 1) |-> IF i <= k THEN notes[i] ELSE notes[i + 1]]
    ELSE notes

remove_note_by_index(notes, index) ==
    IF 0 <= index /\ index < Len(notes)
    THEN [i \in 1..(Len(notes) - 1) |-> IF i <= index THEN notes[i] ELSE notes[i + 1]]
    ELSE notes

\* the Note objects of a project, in order
NotesOf(h, p) == [i \in 1..Len(p.notes) |-> h[p.notes[i]]]

Project_to_dict(h, p) ==
    [notes |-> [i \in 1..Len(p.notes) |-> Note_to_dict(h[p.notes[i]])]]

\* notes that do not convert are left out
ProjectFromDictSkipping(data, t) ==
    LET conv == [i \in 1..Len(data.notes) |-> Note_from_dict(data.notes[i], t)]
        good == {i \in 1..Len(conv) : conv[i].ok}
        nth(k) == CHOOSE i \in good : Cardinality({j \in good : j < i}) = k - 1
    IN [ok |-> TRUE, val |-> [k \in 1..Cardinality(good) |-> conv[nth(k)].val]]

\* the list comprehension raises at the first note that does not convert
Project_from_dict(data, t) ==
    LET conv == [i \in 1..Len(data.notes) |-> Note_from_dict(data.notes[i], t)] IN
    IF \E i \in 1..Len(conv) : ~conv[i].ok
    THEN [ok |-> FALSE,
          error |-> conv[CHOOSE i \in 1..Len(conv) :
                            ~conv[i].ok /\ \A j \in 1..(i - 1) : conv[j].ok].error]
    ELSE [ok |-> TRUE, val |-> [i \in 1..Len(conv) |-> conv[i].val]]

----------------------------------------------------------------------------
(* class ProjectManager *)

Absent == [exists |-> FALSE]
FileOf(data) == [exists |-> TRUE, data |-> data]

\* the file after save_project(project) returned
save_project(h, p) == FileOf(Project_to_dict(h, p))

\* the Note values load_project() returns, or the error it raises
load_project(f, t) ==
    IF f.exists THEN Project_from_dict(f.data, t) ELSE [ok |-> TRUE, val |-> <<>>]

----------------------------------------------------------------------------
(* Inputs of the controller: what the user types and picks, what the file   *)
(* at startup holds, whether open() of the file succeeds                    *)

SeqsUpTo(S, n) == UNION {[1..k -> S] : k \in 0..n}

\* blank, a title of exactly TitleLimit characters once trimmed, and one too long
AppTitles == {<<" ">>, Rep("a", TitleLimit) \o <<" ">>, Rep("a", TitleLimit + 1)}

AppContents == {<<>>, <<"m", " ">>}

AppMembers == {"HOME"}

\* serialized notes of the startup file: known and unknown labels, short and
\* over-long titles, timestamps in either order
AppFileNotes ==
    [title : {<<"t">>, Rep("t", TitleLimit + 1)},
     category : {NoteCategory.WORK, "Bogus"},
     content : {<<"m">>},
     created_at : {isoformat(0), isoformat(1)},
     updated_at : {isoformat(0), isoformat(1)}]

\* the file leaves room on the heap for one added note

AppFiles ==
    {Absent} \cup {FileOf([notes |-> s]) : s \in SeqsUpTo(AppFileNotes, MaxHeap - 1)}

----------------------------------------------------------------------------
(* class NoteApp *)

\* refresh_notes_list(): one entry "title (category label)" per note, in order
refresh_notes_list(h, p) ==
    [i \in 1..Len(p.notes) |->
        <<h[p.notes[i]].title, NoteCategory[h[p.notes[i]].category]>>]

RemoveAt(s, k) == [i \in 1..(Len(s) - 1) |-> IF i < k THEN s[i] ELSE s[i + 1]]

\* Python frees a Note that neither project.notes nor an open form refers to;
\* its identity is not used again
Freed == [freed |-> TRUE]

Referenced(p, ds) ==
    {p.notes[i] : i \in 1..Len(p.notes)}
        \cup {ds[d].note.val : d \in {e \in 1..Len(ds) : ds[e].note.some}}

Collect(h, p, ds) ==
    [i \in 1..Len(h) |-> IF i \in Referenced(p, ds) THEN h[i] ELSE Freed]

Init ==
    /\ pc = "start"
    /\ file \in AppFiles
    /\ heap = <<>>
    /\ project = None
    /\ current_note_index = None
    /\ listbox = <<>>
    /\ dialogs = <<>>
    /\ now = StartTime
    /\ event = [op |-> "none"]

\* NoteApp.__init__: load_project(), no selection, setup_ui() fills the list
Startup ==
    /\ pc = "start"
    /\ LET loaded == load_project(file, now) IN
       IF loaded.ok
       THEN /\ pc' = "running"
            /\ heap' = loaded.val
            /\ project' = [notes |-> [i \in 1..Len(loaded.val) |-> i]]
            /\ listbox' = refresh_notes_list(heap', project')
            /\ event' = [op |-> "load", outcome |-> "ok"]
       ELSE /\ pc' = "crashed"
            /\ event' = [op |-> "load", outcome |-> loaded.error]
            /\ UNCHANGED <<heap, project, listbox>>
    /\ UNCHANGED <<file, current_note_index, dialogs, now>>

\* the clock advances
Tick ==
    /\ now < StartTime + MaxTicks
    /\ now' = now + 1
    /\ event' = [op |-> "tick"]
    /\ UNCHANGED <<pc, file, heap, project, current_note_index, listbox, dialogs>>

\* display_note with the list entry `index` selected
Select(index) ==
    /\ pc = "running"
    /\ index \in 0..(Len(listbox) - 1)
    /\ current_note_index' = Some(index)
    /\ event' = [op |-> "select", index |-> index,
                 outcome |-> IF index < Len(project.notes) THEN "ok" ELSE "IndexError"]
    /\ UNCHANGED <<pc, file, heap, project, listbox, dialogs, now>>

\* add_note: opens an empty form
AddNote ==
    /\ pc = "running"
    /\ Len(dialogs) < MaxDialogs
    /\ dialogs' = Append(dialogs, [note |-> None])
    /\ event' = [op |-> "add", outcome |-> "opened"]
    /\ UNCHANGED <<pc, file, heap, project, current_note_index, listbox, now>>

\* edit_note: opens a form on the selected Note object
EditNote ==
    /\ pc = "running"
    /\ IF current_note_index = None
       THEN /\ event' = [op |-> "edit", outcome |-> "no selection"]
            /\ UNCHANGED dialogs
       ELSE IF current_note_index.val >= Len(project.notes)
       THEN /\ event' = [op |-> "edit", outcome |-> "IndexError"]
            /\ UNCHANGED dialogs
       ELSE /\ Len(dialogs) < MaxDialogs
            /\ dialogs' =
                 Append(dialogs, [note |-> Some(project.notes[current_note_index.val + 1])])
            /\ event' = [op |-> "edit", outcome |-> "opened"]
    /\ UNCHANGED <<pc, file, heap, project, current_note_index, listbox, now>>

\* remove_note; `confirm` is the answer to askyesno, `writable` whether
\* save_project can open the file: when it cannot, open() raises, the file
\* stays as it was and the rest of the handler does not run
RemoveNote(confirm, writable) ==
    /\ pc = "running"
    /\ IF current_note_index = None
       THEN /\ event' = [op |-> "remove", outcome |-> "no selection"]
            /\ UNCHANGED <<heap, project, current_note_index, file, listbox>>
       ELSE IF current_note_index.val >= Len(project.notes)
       THEN /\ event' = [op |-> "remove", outcome |-> "IndexError"]
            /\ UNCHANGED <<heap, project, current_note_index, file, listbox>>
       ELSE IF ~confirm
       THEN /\ event' = [op |-> "remove", outcome |-> "declined"]
            /\ UNCHANGED <<heap, project, current_note_index, file, listbox>>
       ELSE /\ project' =
                 [notes |-> remove_note_by_index(project.notes, current_note_index.val)]
            /\ current_note_index' = None
            /\ heap' = Collect(heap, project', dialogs)
            /\ IF writable
               THEN /\ file' = save_project(heap, project')
                    /\ listbox' = refresh_notes_list(heap, project')
                    /\ event' = [op |-> "remove", outcome |-> "saved"]
               ELSE /\ event' = [op |-> "remove", outcome |-> "OSError"]
                    /\ UNCHANGED <<file, listbox>>
    /\ UNCHANGED <<pc, dialogs, now>>

\* a title save() accepts without the length check
TitleNotEmpty(title) == title # <<>>

\* the two checks of save() on the trimmed title
ValidTitle(title) == title # <<>> /\ Len(title) <= TitleLimit

\* the OK button of form d: the closure save() of add_note_dialog
DialogSave(d, title_entry, category_var, content_text, writable) ==
    /\ pc = "running"
    /\ d \in 1..Len(dialogs)
    /\ LET title == strip(title_entry)
           content == strip(content_text)
           note == dialogs[d].note
           done(outcome) == [op |-> "ok", note |-> note, title |-> title_entry,
                             outcome |-> outcome]
           edited == [heap EXCEPT ![note.val] =
                         Note_update(@, Some(title), Some(category_var), Some(content), now)]
           added == Append(heap, Note_init(title, category_var, content, now))
       IN
       IF ~ValidTitle(title)
       THEN /\ event' = done("rejected")
            /\ UNCHANGED <<heap, project, file, listbox, dialogs>>
       ELSE /\ IF note.some
               THEN UNCHANGED project
               ELSE /\ Len(heap) < MaxHeap
                    /\ project' = [notes |-> add_note(project.notes, Len(heap) + 1)]
            /\ IF writable
               THEN /\ file' = save_project(IF note.some THEN edited ELSE added, project')
                    /\ listbox' =
                         refresh_notes_list(IF note.some THEN edited ELSE added, project')
                    /\ dialogs' = RemoveAt(dialogs, d)
                    /\ event' = done("saved")
               ELSE /\ event' = done("OSError")
                    /\ UNCHANGED <<file, listbox, dialogs>>
            /\ heap' = Collect(IF note.some THEN edited ELSE added, project', dialogs')
    /\ UNCHANGED <<pc, current_note_index, now>>

\* the Cancel button of form d
DialogCancel(d) ==
    /\ pc = "running"
    /\ d \in 1..Len(dialogs)
    /\ dialogs' = RemoveAt(dialogs, d)
    /\ heap' = Collect(heap, project, dialogs')
    /\ event' = [op |-> "cancel"]
    /\ UNCHANGED <<pc, file, project, current_note_index, listbox, now>>

Next ==
    \/ Startup
    \/ Tick
    \/ \E index \in 0..MaxHeap : Select(index)
    \/ AddNote
    \/ EditNote
    \/ \E confirm \in BOOLEAN, writable \in BOOLEAN : RemoveNote(confirm, writable)
    \/ \E d \in 1..MaxDialogs, t \in AppTitles, c \in AppMembers, x \in AppContents,
          writable \in BOOLEAN : DialogSave(d, t, c, x, writable)
    \/ \E d \in 1..MaxDialogs : DialogCancel(d)

Spec == Init /\ [][Next]_vars

----------------------------------------------------------------------------
(* The controller when every save_project succeeds *)

NextOK ==
    \/ Startup
    \/ Tick
    \/ \E index \in 0..MaxHeap : Select(index)
    \/ AddNote
    \/ EditNote
    \/ \E confirm \in BOOLEAN : RemoveNote(confirm, TRUE)
    \/ \E d \in 1..MaxDialogs, t \in AppTitles, c \in AppMembers, x \in AppContents :
          DialogSave(d, t, c, x, TRUE)
    \/ \E d \in 1..MaxDialogs : DialogCancel(d)

SpecOK == Init /\ [][NextOK]_vars

----------------------------------------------------------------------------
(* The data layer called directly, as a test of Note, Project and           *)
(* ProjectManager calls it: load_project(), then constructions, updates and *)
(* removals with any arguments, then save_project()                         *)

\* timestamps of second 0, with the fraction left out, written as 0, or not 0
LibStamps == [sec : {0}, frac : {NoFraction} \cup (0..(TicksPerSecond - 1))]

\* one note under every label, known or not
LibLabelNotes ==
    [title : {<<"t">>}, category : Labels \cup {"Bogus"}, content : {<<"m">>},
     created_at : {isoformat(0)}, updated_at : {isoformat(1)}]

\* notes under one known and one unknown label, for files of several notes
LibMixedNotes == {n \in LibLabelNotes : n.category \in {NoteCategory.WORK, "Bogus"}}

\* one note with every pair of timestamps, with a short and an over-long title
LibStampNotes ==
    [title : {<<"t">>, Rep("t", TitleLimit + 1)}, category : {NoteCategory.MISC},
     content : {<<"m">>}, created_at : LibStamps, updated_at : LibStamps]

LibFiles ==
    {Absent}
        \cup {FileOf([notes |-> <<n>>]) : n \in LibLabelNotes \cup LibStampNotes}
        \cup {FileOf([notes |-> s]) : s \in SeqsUpTo(LibMixedNotes, MaxHeap)}

LibTitles == {<<>>, Rep("b", TitleLimit + 1)}

LibContents == {<<>>, <<"n">>}

LibMembers == {"HOME"}

Optional(S) == {None} \cup {Some(v) : v \in S}

LibInit ==
    /\ pc = "api"
    /\ file \in LibFiles
    /\ heap = <<>>
    /\ project = None
    /\ current_note_index = None
    /\ listbox = <<>>
    /\ dialogs = <<>>
    /\ now = StartTime
    /\ event = [op |-> "none"]

\* project = ProjectManager.load_project()
ApiLoad ==
    /\ pc = "api"
    /\ project = None
    /\ LET loaded == load_project(file, now) IN
       IF loaded.ok
       THEN /\ heap' = loaded.val
            /\ project' = [notes |-> [i \in 1..Len(loaded.val) |-> i]]
            /\ event' = [op |-> "load", outcome |-> "ok"]
            /\ UNCHANGED pc
       ELSE /\ pc' = "raised"
            /\ event' = [op |-> "load", outcome |-> loaded.error]
            /\ UNCHANGED <<heap, project>>
    /\ UNCHANGED <<file, current_note_index, listbox, dialogs, now>>

\* project.add_note(Note(title, category, content))
ApiConstruct(title, category, content) ==
    /\ pc = "api"
    /\ project # None
    /\ Len(heap) < MaxHeap
    /\ heap' = Append(heap, Note_init(title, category, content, now))
    /\ project' = [notes |-> add_note(project.notes, Len(heap) + 1)]
    /\ event' = [op |-> "construct", id |-> Len(heap) + 1, title |-> Some(title)]
    /\ UNCHANGED <<pc, file, current_note_index, listbox, dialogs, now>>

\* project.notes[i].update(title, category, content), each argument optional
ApiUpdate(i, title, category, content) ==
    /\ pc = "api"
    /\ project # None
    /\ i \in 1..Len(project.notes)
    /\ heap' = [heap EXCEPT ![project.notes[i]] =
                   Note_update(@, title, category, content, now)]
    /\ event' = [op |-> "update", id |-> project.notes[i], title |-> title,
                 category |-> category, content |-> content]
    /\ UNCHANGED <<pc, file, project, current_note_index, listbox, dialogs, now>>

\* project.remove_note_by_index(index), with any integer
ApiRemove(index) ==
    /\ pc = "api"
    /\ project # None
    /\ project' = [notes |-> remove_note_by_index(project.notes, index)]
    /\ heap' = Collect(heap, project', dialogs)
    /\ event' = [op |-> "remove_note_by_index", index |-> index]
    /\ UNCHANGED <<pc, file, current_note_index, listbox, dialogs, now>>

\* ProjectManager.save_project(project), which ends the test
ApiSave ==
    /\ pc = "api"
    /\ project # None
    /\ file' = save_project(heap, project)
    /\ pc' = "saved"
    /\ event' = [op |-> "save"]
    /\ UNCHANGED <<heap, project, current_note_index, listbox, dialogs, now>>

LibNext ==
    \/ ApiLoad
    \/ Tick
    \/ \E t \in LibTitles, c \in LibMembers, x \in LibContents : ApiConstruct(t, c, x)
    \/ \E i \in 1..MaxHeap, t \in Optional(LibTitles), c \in Optional(LibMembers),
          x \in Optional(LibContents) : ApiUpdate(i, t, c, x)
    \/ \E index \in (-1)..MaxHeap : ApiRemove(index)
    \/ ApiSave

LibSpec == LibInit /\ [][LibNext]_vars

----------------------------------------------------------------------------
(* Properties *)

Live == {i \in 1..Len(heap) : heap[i] # Freed}

InProject == IF project = None THEN {} ELSE {project.notes[i] : i \in 1..Len(project.notes)}

Saved == event.op \in {"ok", "remove"} /\ event.outcome = "saved"

FirstChars(s, n) == IF Len(s) > n THEN SubSeq(s, 1, n) ELSE s

\* C1: when every save succeeds, loading the file gives the notes of the
\* project in memory, field by field and in order, in every state of the
\* running application; after each completed Add, Edit or Remove the file is
\* exactly the serialization of the project.
C1_FileHoldsProject ==
    pc = "running" =>
        LET loaded == load_project(file, now) IN
        /\ loaded.ok
        /\ loaded.val = NotesOf(heap, project)
        /\ Saved => file = FileOf(Project_to_dict(heap, project))

\* an Add completed that left two notes, of different times, in the project
C1_Witness ==
    /\ Saved
    /\ event.op = "ok"
    /\ event.note = None
    /\ Len(project.notes) = 2
    /\ heap[project.notes[2]].created_at # heap[project.notes[1]].updated_at

\* C2: the selection is "no note selected" or an index into project.notes.
C2_SelectionInRange ==
    pc = "running" =>
        \/ current_note_index = None
        \/ 0 <= current_note_index.val /\ current_note_index.val < Len(project.notes)

\* C3: a rejected action changes nothing: OK on a form whose title, trimmed,
\* is empty or longer than TitleLimit; Edit or Remove with no selection;
\* Remove declined. The notes, their fields, the selection and the file stay.
C3_RejectedChangesNothing ==
    [][(\/ /\ event'.op = "ok"
           /\ \/ strip(event'.title) = <<>>
              \/ Len(strip(event'.title)) > TitleLimit
        \/ /\ event'.op \in {"edit", "remove"}
           /\ current_note_index = None
        \/ /\ event'.op = "remove"
           /\ event'.outcome = "declined")
       => UNCHANGED <<project, heap, current_note_index, file>>]_vars

\* OK was pressed on a form whose title is too long, with a note in the project
C3_Witness ==
    /\ event.op = "ok"
    /\ Len(strip(event.title)) > TitleLimit
    /\ project # None
    /\ Len(project.notes) > 0

FileTitlesFit == \A i \in 1..Len(file.data.notes) : Len(file.data.notes[i].title) <= TitleLimit

\* the timestamps of the file are written the way isoformat() writes them
FileStampsAsWritten ==
    \A i \in 1..Len(file.data.notes) :
        /\ file.data.notes[i].created_at.frac # 0
        /\ file.data.notes[i].updated_at.frac # 0

\* C4 as claimed: serializing what a valid file deserializes to gives the file.
C4_SerializeDeserialize ==
    (event.op = "load" /\ event.outcome = "ok" /\ file.exists /\ FileTitlesFit)
        => Project_to_dict(heap, project) = file.data

\* C4 as amended: deserializing what save wrote gives the notes of the project,
\* field by field and in order; and serializing what a valid file deserializes
\* to gives the file when its timestamps are in the form isoformat() writes.
C4_RoundTrip ==
    /\ (event.op = "load" /\ event.outcome = "ok" /\ file.exists /\ FileTitlesFit
            /\ FileStampsAsWritten)
        => Project_to_dict(heap, project) = file.data
    /\ event.op = "save" =>
        /\ load_project(file, now).ok
        /\ load_project(file, now).val = NotesOf(heap, project)

\* a project of two notes was saved, the second one changed after its creation
C4_Witness ==
    /\ event.op = "save"
    /\ Len(project.notes) = 2
    /\ heap[project.notes[2]].updated_at # heap[project.notes[2]].created_at

C6_UpdatedNotBeforeCreated ==
    \A i \in InProject : heap[i].updated_at >= heap[i].created_at

FileHasUnknownLabel ==
    file.exists /\ \E i \in 1..Len(file.data.notes) : file.data.notes[i].category \notin Labels

\* C7: loading a file with a label outside the fixed set raises and gives no
\* project, not even one of the notes that convert; loading with no file
\* gives an empty project and no error.
C7_LoadUnknownLabel ==
    event.op = "load" =>
        /\ FileHasUnknownLabel =>
            event.outcome = "ValueError" /\ project = None /\ heap = <<>>
        /\ ~file.exists => event.outcome = "ok" /\ project = [notes |-> <<>>]

\* a file of two notes was loaded, the first with a known label, the second not
C7_Witness ==
    /\ event.op = "load"
    /\ file.exists
    /\ Len(file.data.notes) = 2
    /\ file.data.notes[1].category \in Labels
    /\ file.data.notes[2].category \notin Labels

\* C8: remove_note_by_index with an index outside 0..len-1 leaves the list as
\* it is; with an index inside, the note at that place goes and the others
\* keep their order.
C8_RemoveAt ==
    [][event'.op = "remove_note_by_index" =>
        LET k == event'.index
            old == project.notes
            new == project'.notes
        IN
        IF k < 0 \/ k >= Len(old)
        THEN new = old
        ELSE /\ Len(new) = Len(old) - 1
             /\ \A i \in 1..Len(new) : new[i] = IF i <= k THEN old[i] ELSE old[i + 1]
      ]_vars

\* a negative index was passed while the project held two notes
C8_Witness ==
    /\ event.op = "remove_note_by_index"
    /\ event.index < 0
    /\ Len(project.notes) = 2

\* C9: a title longer than TitleLimit given to the constructor or to update is
\* stored as its first TitleLimit characters, and no note ever has a longer
\* title.
C9_TitleTruncated ==
    /\ [](\A i \in Live : Len(heap[i].title) <= TitleLimit)
    /\ [][(event'.op \in {"construct", "update"}
            /\ event'.title.some
            /\ Len(event'.title.val) > TitleLimit)
          => heap'[event'.id].title = SubSeq(event'.title.val, 1, TitleLimit)]_vars

\* an update was given a title longer than TitleLimit
C9_Witness ==
    /\ event.op = "update"
    /\ event.title.some
    /\ Len(event.title.val) > TitleLimit

\* C10: when the OK of an Edit form has saved, the note it updated is a note
\* of the project.
C10_EditedNoteInProject ==
    (event.op = "ok" /\ event.note.some /\ event.outcome = "saved")
        => event.note.val \in InProject

====
